---- MODULE Spec2Model ----
(***************************************************************************)
(* State-machine model of the chess board of martinlsm/chess               *)
(* (src/src/board.rs): the 8x8 grid of pieces, the side to move, and the   *)
(* single mutator move_piece with its validation helpers.                  *)
(***************************************************************************)
EXTENDS Integers, Naturals, Sequences, FiniteSets, TLC

\* ------------------------------------------------------------------ bounds

\* Number of successful moves explored from new_board.
MaxMoves == 3

\* Number of successful moves explored in the longer games of SpecDeep.
MaxDeep == 6

\* ------------------------------------------------------- program constants

\* The board is [[None; 8]; 8]: indices 0..7 on both axes.
BoardSize == 8

\* ------------------------------------------------------------- data model

WHITE == "WHITE"
BLACK == "BLACK"
Color == {WHITE, BLACK}

\* Option<Piece>::None
None == [kind |-> "NONE"]

\* Piece::PAWN(Color, bool)
PAWN(color, has_moved) == [kind |-> "PAWN", color |-> color, has_moved |-> has_moved]
\* Piece::ROOK(Color, bool)
ROOK(color, has_moved) == [kind |-> "ROOK", color |-> color, has_moved |-> has_moved]
\* Piece::KING(Color, bool)
KING(color, has_moved) == [kind |-> "KING", color |-> color, has_moved |-> has_moved]
\* Piece::KNIGHT(Color)
KNIGHT(color) == [kind |-> "KNIGHT", color |-> color]
\* Piece::BISHOP(Color)
BISHOP(color) == [kind |-> "BISHOP", color |-> color]
\* Piece::QUEEN(Color)
QUEEN(color) == [kind |-> "QUEEN", color |-> color]

\* Square(usize, usize): <<file, rank>>; .0 is the file, .1 the rank.
File(sq) == sq[1]
Rank(sq) == sq[2]

Idx == 0 .. (BoardSize - 1)
Squares == Idx \X Idx

\* Option<Square>::None
NoSquare == <<>>

\* get_color: the color carried by every piece variant.
get_color(piece) == piece.color

\* tag_as_moved: the same piece with its has_moved flag set, for the variants
\* that carry one; the other variants are returned as they are.
tag_as_moved(piece) ==
    IF piece.kind \in {"PAWN", "ROOK", "KING"}
    THEN [piece EXCEPT !.has_moved = TRUE]
    ELSE piece

\* ------------------------------------------------------------------ state

VARIABLES
    pieces,       \* BoardImpl.pieces: pieces[file][rank]
    player_turn,  \* BoardImpl.player_turn
    en_passant,   \* Board.en_passant (the field fen::import fills)
    result,       \* what the last move_piece call returned
    moved_from,   \* history: 'from' of the last call that returned Ok
    moved_to,     \* history: 'to' of the last call that returned Ok
    captured,     \* history: what stood on 'to' before that call
    moves,        \* history: number of calls that returned Ok
    called,       \* the function of piece.rs, square.rs or fen.rs applied last
    input,        \* the argument the caller passes to that function
    output        \* what the function returned

vars == <<pieces, player_turn, en_passant, result, moved_from, moved_to, captured, moves,
          called, input, output>>

\* Values of 'result'.
Ok == "Ok"
ErrEmpty == "Square is empty"
ErrTurn == "Not this player's turn to move"
ErrInvalid == "Invalid move"
Panic == "panic"
IsErr(r) == r \in {ErrEmpty, ErrTurn, ErrInvalid}

\* new_board(): the standard start position, white to move.
BackRank(color) ==
    <<ROOK(color, FALSE), KNIGHT(color), BISHOP(color), QUEEN(color),
      KING(color, FALSE), BISHOP(color), KNIGHT(color), ROOK(color, FALSE)>>

new_board_pieces ==
    [col \in Idx |->
        [row \in Idx |->
            CASE row = 0 -> BackRank(WHITE)[col + 1]
              [] row = 1 -> PAWN(WHITE, FALSE)
              [] row = 6 -> PAWN(BLACK, FALSE)
              [] row = 7 -> BackRank(BLACK)[col + 1]
              [] OTHER -> None]]

\* get_piece(sq)
get_piece(sq) == pieces[File(sq)][Rank(sq)]

Abs(x) == IF x < 0 THEN -x ELSE x

\* The half-open range a..b of Rust, as the number of its elements.
RangeLen(a, b) == IF b > a THEN b - a ELSE 0

\* perpendicular_path(from, to): Some(path) on a shared file or rank, else None.
\* The shared-rank arm iterates over the ranks, as the source does, so its
\* path is empty.
perpendicular_path(from, to) ==
    IF File(from) = File(to) THEN
        IF Rank(from) < Rank(to)
        THEN [some |-> TRUE,
              path |-> [i \in 1 .. RangeLen(Rank(from) + 1, Rank(to) + 1) |->
                            <<File(from), Rank(from) + i>>]]
        ELSE [some |-> TRUE,
              path |-> [i \in 1 .. RangeLen(Rank(to), Rank(from)) |->
                            <<File(to), Rank(from) - i>>]]
    ELSE IF Rank(from) = Rank(to) THEN
        IF File(from) < File(to)
        THEN [some |-> TRUE,
              path |-> [i \in 1 .. RangeLen(Rank(from) + 1, Rank(to) + 1) |->
                            <<File(from), Rank(from) + i>>]]
        ELSE [some |-> TRUE,
              path |-> [i \in 1 .. RangeLen(Rank(to), Rank(from)) |->
                            <<File(from), Rank(from) - i>>]]
    ELSE [some |-> FALSE, path |-> <<>>]

\* valid_knight_move with the jump tested as a sum of the two distances.
valid_knight_move_sum(from, to) ==
    Abs(File(from) - File(to)) + Abs(Rank(from) - Rank(to)) = 3

\* valid_knight_move(from, to)
valid_knight_move(from, to) ==
    LET file_diff == Abs(File(from) - File(to))
        rank_diff == Abs(Rank(from) - Rank(to))
    IN  (file_diff = 2 /\ rank_diff = 1) \/ (file_diff = 1 /\ rank_diff = 2)

\* valid_pawn_move with the has_moved test of the path length left out.
valid_pawn_move_any_double(color, has_moved, from, to) ==
    LET pp == perpendicular_path(from, to)
        target == get_piece(to)
    IN  IF pp.some THEN
            IF Len(pp.path) > 2 THEN "false"
            ELSE IF (color = WHITE /\ Rank(to) <= Rank(from))
                    \/ (color = BLACK /\ Rank(to) >= Rank(from)) THEN "false"
            ELSE IF \A i \in 1 .. Len(pp.path) : get_piece(pp.path[i]) = None
                 THEN "true" ELSE "false"
        ELSE IF target # None /\ Rank(to) = Rank(from) + (IF color = WHITE THEN 1 ELSE -1)
                /\ Abs(File(to) - File(from)) = 1 THEN "true"
        ELSE "false"

\* valid_pawn_move(color, has_moved, from, to): "true", "false", "panic" (a
\* failed assert!) or "underflow": from.1 - 1 is evaluated for a black pawn on
\* rank 0, which panics in a build with overflow checks and wraps to
\* usize::MAX, equal to no rank of the board, in one without.
valid_pawn_move(color, has_moved, from, to) ==
    LET pp == perpendicular_path(from, to)
        target == get_piece(to)
    IN  IF from = to THEN Panic
        ELSE IF pp.some THEN
            IF Len(pp.path) > 2 \/ (Len(pp.path) > 1 /\ has_moved) THEN "false"
            ELSE IF (color = WHITE /\ Rank(to) <= Rank(from))
                    \/ (color = BLACK /\ Rank(to) >= Rank(from)) THEN "false"
            ELSE IF \A i \in 1 .. Len(pp.path) : get_piece(pp.path[i]) = None
                 THEN "true" ELSE "false"
        ELSE IF target # None THEN
            IF get_color(target) = color THEN Panic
            ELSE IF color = WHITE /\ Rank(to) = Rank(from) + 1
                    /\ Abs(File(to) - File(from)) = 1 THEN "true"
            ELSE IF color = BLACK THEN
                IF Rank(from) = 0 THEN "underflow"
                ELSE IF Rank(to) = Rank(from) - 1
                        /\ Abs(File(to) - File(from)) = 1 THEN "true"
                ELSE "false"
            ELSE "false"
        ELSE "false"

\* valid_move(piece, from, to): as valid_pawn_move; todo!() panics.
valid_move(piece, from, to) ==
    IF from = to THEN "false"
    ELSE IF File(to) >= BoardSize \/ Rank(to) >= BoardSize THEN "false"
    ELSE IF get_piece(to) # None /\ get_color(piece) = get_color(get_piece(to))
         THEN "false"
    ELSE CASE piece.kind = "BISHOP" -> Panic
           [] piece.kind = "KING" -> Panic
           [] piece.kind = "KNIGHT" ->
                (IF valid_knight_move(from, to) THEN "true" ELSE "false")
           [] piece.kind = "PAWN" ->
                valid_pawn_move(piece.color, piece.has_moved, from, to)
           [] piece.kind = "QUEEN" -> Panic
           [] piece.kind = "ROOK" -> Panic

\* move_piece returns before it reads 'to' when the origin is empty or holds a
\* piece of the side not to move.
returns_early(from) ==
    get_piece(from) = None \/ get_color(get_piece(from)) # player_turn

\* move_piece with the check of whose turn it is left out.
move_piece_results_any_turn(from, to) ==
    LET piece == get_piece(from)
    IN  IF piece = None THEN {ErrEmpty}
        ELSE LET v == valid_move(piece, from, to)
             IN  CASE v = Panic -> {Panic}
                   [] v = "underflow" -> {Panic, ErrInvalid}
                   [] v = "false" -> {ErrInvalid}
                   [] v = "true" -> {Ok}

\* The values move_piece(from, to) can return on the current board: one,
\* except where the build decides (see valid_pawn_move).
move_piece_results(from, to) ==
    LET piece == get_piece(from)
    IN  IF piece = None THEN {ErrEmpty}
        ELSE IF get_color(piece) # player_turn THEN {ErrTurn}
        ELSE LET v == valid_move(piece, from, to)
             IN  CASE v = Panic -> {Panic}
                   [] v = "underflow" -> {Panic, ErrInvalid}
                   [] v = "false" -> {ErrInvalid}
                   [] v = "true" -> {Ok}

\* move_piece with the origin square not cleared.
moved_pieces_keeps_origin(from, to) ==
    [pieces EXCEPT ![File(to)][Rank(to)] = tag_as_moved(get_piece(from))]

\* move_piece placing the piece as it stood, without tag_as_moved.
moved_pieces_untagged(from, to) ==
    LET placed == [pieces EXCEPT ![File(to)][Rank(to)] = get_piece(from)]
    IN  [placed EXCEPT ![File(from)][Rank(from)] = None]

\* The grid a successful move_piece leaves behind.
moved_pieces(from, to) ==
    LET placed == [pieces EXCEPT ![File(to)][Rank(to)] = tag_as_moved(get_piece(from))]
    IN  [placed EXCEPT ![File(from)][Rank(from)] = None]

\* move_piece relocating the piece before the move is validated.
pieces_after_unvalidated(r, from, to) ==
    IF r = Ok \/ (r = ErrInvalid /\ to \in Squares /\ to # from)
    THEN moved_pieces(from, to)
    ELSE pieces

\* The grid after a call that returned r.
pieces_after(r, from, to) == IF r = Ok THEN moved_pieces(from, to) ELSE pieces

\* The turn switch with both arms giving BLACK.
next_turn_black(color) == BLACK

\* The side to move after a successful move.
next_turn(color) == IF color = WHITE THEN BLACK ELSE WHITE

\* The side to move after a call that returned r.
turn_after(r) == IF r = Ok THEN next_turn(player_turn) ELSE player_turn

\* Squares a caller passes: 'from' indexes the grid unchecked, so it is a
\* square of the board; 'to' is bounds-checked by valid_move and may lie off it.
OffBoard == {<<BoardSize, 0>>, <<0, BoardSize>>, <<0, BoardSize + 1>>}
ToSquares == Squares \cup OffBoard

\* The squares the explored games are played on: files A to D.
PlayFiles == 0 .. 3
PlaySquares == PlayFiles \X Idx

\* The board new_board() returns, before any call of move_piece.
InitBoard ==
    /\ pieces = new_board_pieces
    /\ player_turn = WHITE
    /\ en_passant = NoSquare
    /\ result = "none"
    /\ moved_from = NoSquare
    /\ moved_to = NoSquare
    /\ captured = None
    /\ moves = 0

\* No function of piece.rs, square.rs or fen.rs has been applied.
NoCall == "none"

Init ==
    /\ InitBoard
    /\ called = NoCall
    /\ input = <<>>
    /\ output = <<>>

\* The effect of a call move_piece(from, to) that returns r.
Returns(r, from, to) ==
    /\ result' = r
    /\ pieces' = pieces_after(r, from, to)
    /\ player_turn' = turn_after(r)
    /\ UNCHANGED <<en_passant, called, input, output>>
    /\ IF r = Ok
       THEN /\ moved_from' = from
            /\ moved_to' = to
            /\ captured' = get_piece(to)
            /\ moves' = moves + 1
       ELSE UNCHANGED <<moved_from, moved_to, captured, moves>>

\* One call of move_piece with origin 'from' and a destination among 'dests',
\* within 'bound' successful moves. A panic ends the run. An early return
\* is the same step for every destination.
MovePiece(from, dests, bound) ==
    /\ result # Panic
    /\ moves < bound
    /\ IF returns_early(from)
       THEN \E r \in move_piece_results(from, from) : Returns(r, from, from)
       ELSE \E to \in dests : \E r \in move_piece_results(from, to) : Returns(r, from, to)

Next == \E from \in PlaySquares : MovePiece(from, ToSquares, MaxMoves)

Spec == Init /\ [][Next]_vars

\* Longer games, played from the squares of files A and B only.
DeepFiles == 0 .. 1
DeepSquares == DeepFiles \X Idx

NextDeep == \E from \in DeepSquares : MovePiece(from, ToSquares, MaxDeep)

SpecDeep == Init /\ [][NextDeep]_vars

\* ---------------------------------------------------------------- claims

\* The piece on sq in the grid before a step, and after it.
Before(sq) == pieces[File(sq)][Rank(sq)]
After(sq) == pieces'[File(sq)][Rank(sq)]

Occupied(sq) == get_piece(sq) # None
HoldsColor(sq, color) == Occupied(sq) /\ get_piece(sq).color = color
Opponent(color) == IF color = WHITE THEN BLACK ELSE WHITE

\* The call move_piece(from, to) returns Ok / returns an error value.
Accepts(from, to) == move_piece_results(from, to) = {Ok}
Rejects(from, to) == \A r \in move_piece_results(from, to) : IsErr(r)

\* C1: a call of move_piece that returns Ok changes the side to move to the
\* other color, so that the side to move is WHITE exactly when the number of
\* successful moves so far is even.
C1_TurnAlternation ==
    /\ [](player_turn = (IF moves % 2 = 0 THEN WHITE ELSE BLACK))
    /\ [][result' = Ok =>
            \/ player_turn = WHITE /\ player_turn' = BLACK
            \/ player_turn = BLACK /\ player_turn' = WHITE]_vars

\* Both colors have moved once and white is to move again.
C1_Witness == result = Ok /\ moves = 2 /\ player_turn = WHITE

\* C2: a call of move_piece that returns an error leaves every square of the
\* grid and the side to move as they were.
C2_FailureChangesNothing ==
    [][IsErr(result') => pieces' = pieces /\ player_turn' = player_turn]_vars

\* After white's first move a call was rejected as an invalid move.
C2_Witness == result = ErrInvalid /\ moves = 1 /\ player_turn = BLACK

\* A piece of the same kind and color, its moved-flag set where the kind
\* carries one.
WithMovedFlag(piece) ==
    IF piece.kind \in {"PAWN", "ROOK", "KING"}
    THEN [kind |-> piece.kind, color |-> piece.color, has_moved |-> TRUE]
    ELSE [kind |-> piece.kind, color |-> piece.color]

\* An en-passant capture: a pawn going diagonally onto an empty square.
IsEnPassantCapture(from, to) ==
    Before(from).kind = "PAWN" /\ File(from) # File(to) /\ Before(to) = None

\* C4: after a call that returns Ok for a move other than an en-passant
\* capture, the destination holds the piece that stood on the origin, same
\* kind and color, its moved-flag set; the origin is empty; the other 62
\* squares hold what they held.
C4_MoveEffect ==
    [][(result' = Ok /\ ~IsEnPassantCapture(moved_from', moved_to')) =>
        /\ Before(moved_from') # None
        /\ After(moved_to') = WithMovedFlag(Before(moved_from'))
        /\ After(moved_from') = None
        /\ \A sq \in Squares \ {moved_from', moved_to'} : After(sq) = Before(sq)]_vars

\* A move that captured a piece has just been applied.
C4_Witness == result = Ok /\ captured # None /\ get_piece(moved_from) = None

\* C5: on every reachable board move_piece returns an error for every
\* destination when the origin is empty or holds a piece of the side that is
\* not to move.
C5_EmptyOrOutOfTurnRejected ==
    \A from \in Squares :
        (~Occupied(from) \/ HoldsColor(from, Opponent(player_turn))) =>
            \A to \in ToSquares : Rejects(from, to)

\* The side that has just moved asked to move again and was refused.
C5_Witness == result = ErrTurn /\ moves = 1 /\ player_turn = BLACK

\* The rank step of a pawn's advance, and the rank pawns start on.
Forward(color) == IF color = WHITE THEN 1 ELSE -1
StartRank(color) == IF color = WHITE THEN 1 ELSE 6

\* One step forward onto an empty square, or two from the starting rank over
\* an empty square onto an empty square.
IsPawnAdvance(from, to) ==
    LET color == get_piece(from).color
    IN  /\ to \in Squares
        /\ File(to) = File(from)
        /\ \/ /\ Rank(to) = Rank(from) + Forward(color)
              /\ ~Occupied(to)
           \/ /\ Rank(from) = StartRank(color)
              /\ Rank(to) = Rank(from) + 2 * Forward(color)
              /\ ~Occupied(<<File(from), Rank(from) + Forward(color)>>)
              /\ ~Occupied(to)

\* C6: for a pawn of the side to move, a destination on the pawn's file is
\* accepted exactly when it is one step forward and empty, or two steps
\* forward from the starting rank with the skipped square and the
\* destination empty; every other destination on its file or its rank is
\* rejected with an error.
C6_PawnAdvance ==
    \A from \in Squares :
        (HoldsColor(from, player_turn) /\ get_piece(from).kind = "PAWN") =>
            \A to \in ToSquares :
                (File(to) = File(from) \/ Rank(to) = Rank(from)) =>
                    IF IsPawnAdvance(from, to) THEN Accepts(from, to) ELSE Rejects(from, to)

\* A pawn has just advanced two steps.
C6_Witness ==
    /\ result = Ok
    /\ get_piece(moved_to).kind = "PAWN"
    /\ File(moved_to) = File(moved_from)
    /\ Abs(Rank(moved_to) - Rank(moved_from)) = 2

\* The file and rank distances are 1 and 2 in some order.
IsKnightJump(from, to) ==
    {Abs(File(from) - File(to)), Abs(Rank(from) - Rank(to))} = {1, 2}

\* C8: for a knight of the side to move, a destination is accepted exactly
\* when it is a (1,2) or (2,1) jump away, on the board, and empty or held by
\* the opponent; every other destination is rejected with an error.
C8_KnightGeometry ==
    \A from \in Squares :
        (HoldsColor(from, player_turn) /\ get_piece(from).kind = "KNIGHT") =>
            \A to \in ToSquares :
                IF /\ IsKnightJump(from, to)
                   /\ File(to) < 8 /\ Rank(to) < 8
                   /\ ~HoldsColor(to, player_turn)
                THEN Accepts(from, to)
                ELSE Rejects(from, to)

\* A knight has just captured a piece.
C8_Witness ==
    /\ result = Ok
    /\ get_piece(moved_to).kind = "KNIGHT"
    /\ captured # None

\* The squares strictly between two squares of one file, rank or diagonal.
Sgn(x) == IF x > 0 THEN 1 ELSE IF x < 0 THEN -1 ELSE 0

Between(a, b) ==
    LET df == File(b) - File(a)
        dr == Rank(b) - Rank(a)
        n == IF Abs(df) > Abs(dr) THEN Abs(df) ELSE Abs(dr)
    IN  {<<File(a) + i * Sgn(df), Rank(a) + i * Sgn(dr)>> : i \in 1 .. (n - 1)}

OnDiagonal(a, b) == a # b /\ Abs(File(a) - File(b)) = Abs(Rank(a) - Rank(b))
OnOrthogonal(a, b) == a # b /\ (File(a) = File(b) \/ Rank(a) = Rank(b))
ClearBetween(a, b) == \A sq \in Between(a, b) : ~Occupied(sq)

\* The piece of 'color' on sq attacks the square 'king': as a pawn, knight or
\* king, as a bishop or queen along a clear diagonal, or as a rook or queen
\* along a clear file or rank.
Attacks(sq, king, color) ==
    LET kind == get_piece(sq).kind
    IN  \/ /\ kind = "PAWN"
           /\ Abs(File(sq) - File(king)) = 1
           /\ Rank(king) = Rank(sq) + Forward(color)
        \/ kind = "KNIGHT" /\ IsKnightJump(sq, king)
        \/ /\ kind = "KING"
           /\ sq # king
           /\ Abs(File(sq) - File(king)) <= 1
           /\ Abs(Rank(sq) - Rank(king)) <= 1
        \/ kind \in {"BISHOP", "QUEEN"} /\ OnDiagonal(sq, king) /\ ClearBetween(sq, king)
        \/ kind \in {"ROOK", "QUEEN"} /\ OnOrthogonal(sq, king) /\ ClearBetween(sq, king)

\* in_check(board, color): a piece of the opponent attacks the king of 'color'.
KingAttacked(color) ==
    \E king \in Squares :
        /\ get_piece(king) = KING(color, FALSE) \/ get_piece(king) = KING(color, TRUE)
        /\ \E sq \in Squares :
              HoldsColor(sq, Opponent(color)) /\ Attacks(sq, king, Opponent(color))

\* C3: after a call that returns Ok the king of the side that moved is not
\* attacked.
C3_NoSelfCheck == result = Ok => ~KingAttacked(Opponent(player_turn))

\* The move just applied was a two-step pawn advance.
TwoStepAdvance ==
    /\ moves > 0
    /\ get_piece(moved_to).kind = "PAWN"
    /\ File(moved_to) = File(moved_from)
    /\ Abs(Rank(moved_to) - Rank(moved_from)) = 2

\* The en-passant target of the current position: the square skipped by the
\* move just applied if that was a two-step pawn advance.
EnPassantTarget ==
    IF TwoStepAdvance
    THEN <<File(moved_from), (Rank(moved_from) + Rank(moved_to)) \div 2>>
    ELSE NoSquare

\* C7: for a pawn of the side to move, a destination one file aside and one
\* rank forward is accepted exactly when it holds an opposing piece or is
\* the en-passant target; every other destination off the pawn's file and
\* rank is rejected with an error.
C7_PawnCapture ==
    \A from \in Squares :
        (HoldsColor(from, player_turn) /\ get_piece(from).kind = "PAWN") =>
            \A to \in ToSquares :
                (File(to) # File(from) /\ Rank(to) # Rank(from)) =>
                    IF /\ to \in Squares
                       /\ Abs(File(to) - File(from)) = 1
                       /\ Rank(to) = Rank(from) + Forward(player_turn)
                       /\ (HoldsColor(to, Opponent(player_turn)) \/ to = EnPassantTarget)
                    THEN Accepts(from, to)
                    ELSE Rejects(from, to)

\* C9: for a bishop of the side to move, a destination is accepted exactly
\* when it lies on a diagonal through the origin, the squares between are
\* empty and it is empty or held by the opponent; every other destination
\* is rejected with an error.
C9_BishopRule ==
    \A from \in Squares :
        (HoldsColor(from, player_turn) /\ get_piece(from).kind = "BISHOP") =>
            \A to \in ToSquares :
                IF /\ to \in Squares
                   /\ OnDiagonal(from, to)
                   /\ ClearBetween(from, to)
                   /\ ~HoldsColor(to, player_turn)
                THEN Accepts(from, to)
                ELSE Rejects(from, to)

\* C10: after every successful move the en-passant target is the square a
\* pawn skipped if that move was a two-step pawn advance, and is cleared
\* otherwise.
C10_EnPassantLifecycle == moves > 0 => en_passant = EnPassantTarget

\* ------------------------------------------------------------------- text

\* A char is written as a one-character string, the double quote, the
\* backslash, the backtick and the chars outside ASCII by their code point ("U+00DF"); a
\* &str or String is a sequence of chars.

\* The printable ASCII chars in code order, from ' ' (32) to '~' (126).
Ascii ==
    <<" ", "!", "U+0022", "#", "$", "%", "&", "'", "(", ")", "*", "+", ",", "-", ".", "/",
      "0", "1", "2", "3", "4", "5", "6", "7", "8", "9", ":", ";", "<", "=", ">", "?",
      "@", "A", "B", "C", "D", "E", "F", "G", "H", "I", "J", "K", "L", "M", "N", "O",
      "P", "Q", "R", "S", "T", "U", "V", "W", "X", "Y", "Z", "[", "U+005C", "]", "^", "_",
      "U+0060", "a", "b", "c", "d", "e", "f", "g", "h", "i", "j", "k", "l", "m", "n", "o",
      "p", "q", "r", "s", "t", "u", "v", "w", "x", "y", "z", "{", "|", "}", "~">>

AsciiChars == {Ascii[i] : i \in 1 .. Len(Ascii)}

\* c as u32, for a printable ASCII char.
OrdTable == [c \in AsciiChars |-> 31 + (CHOOSE i \in 1 .. Len(Ascii) : Ascii[i] = c)]
Ord(c) == OrdTable[c]

\* The ASCII char of a code.
Chr(n) == Ascii[n - 31]

\* Chars outside ASCII: sharp s, dotless i, e acute and capital E acute.
SHARP_S == "U+00DF"
DOTLESS_I == "U+0131"
E_ACUTE == "U+00E9"
CAP_E_ACUTE == "U+00C9"

\* The UTF-8 bytes of a char, which str::len counts and as_bytes returns.
Utf8(c) ==
    IF c \in AsciiChars THEN <<Ord(c)>>
    ELSE CASE c = SHARP_S -> <<195, 159>>
           [] c = DOTLESS_I -> <<196, 177>>
           [] c = E_ACUTE -> <<195, 169>>
           [] c = CAP_E_ACUTE -> <<195, 137>>

IsAsciiLower(c) == c \in AsciiChars /\ Ord(c) >= Ord("a") /\ Ord(c) <= Ord("z")
IsAsciiUpper(c) == c \in AsciiChars /\ Ord(c) >= Ord("A") /\ Ord(c) <= Ord("Z")

\* char::to_uppercase: the chars c maps to (sharp s maps to two).
char_to_uppercase(c) ==
    IF IsAsciiLower(c) THEN <<Chr(Ord(c) - (Ord("a") - Ord("A")))>>
    ELSE CASE c = SHARP_S -> <<"S", "S">>
           [] c = DOTLESS_I -> <<"I">>
           [] c = E_ACUTE -> <<CAP_E_ACUTE>>
           [] OTHER -> <<c>>

\* char::is_uppercase
is_uppercase(c) == IsAsciiUpper(c) \/ c = CAP_E_ACUTE

\* str::to_uppercase
RECURSIVE str_to_uppercase(_)
str_to_uppercase(s) ==
    IF s = <<>> THEN <<>>
    ELSE char_to_uppercase(Head(s)) \o str_to_uppercase(Tail(s))

\* str::as_bytes
RECURSIVE as_bytes(_)
as_bytes(s) == IF s = <<>> THEN <<>> ELSE Utf8(Head(s)) \o as_bytes(Tail(s))

\* str::len: the length in bytes.
str_len(s) == Len(as_bytes(s))

\* The strings of at most n chars over a set of chars.
StringsUpTo(chars, n) == UNION {[1 .. k -> chars] : k \in 0 .. n}

\* ---------------------------------------------------------------- results

\* Result<T>: Ok(val), Err(chess_error(msg)), or the abort of a panic. A
\* message formatted with an argument is kept without the argument.
OkVal(val) == [ok |-> TRUE, val |-> val, panic |-> FALSE]
Err(msg) == [ok |-> FALSE, err |-> msg, panic |-> FALSE]
Abort(msg) == [ok |-> FALSE, err |-> msg, panic |-> TRUE]

IsOk(r) == r.ok
IsError(r) == ~r.ok /\ ~r.panic
IsAbort(r) == r.panic

\* One application of a function to the input: the call returns 'value'.
Call(name, value) ==
    /\ called = NoCall
    /\ called' = name
    /\ output' = value
    /\ UNCHANGED <<input, pieces, player_turn, en_passant, result,
                   moved_from, moved_to, captured, moves>>

\* The state before a call with an input drawn from 'inputs'.
InitCall(inputs) ==
    /\ InitBoard
    /\ called = NoCall
    /\ input \in inputs
    /\ output = <<>>

\* -------------------------------------------------------------- square.rs

\* Square::from with the file compared against 'I' instead of 'H'.
Square_from_file_I(s) ==
    IF str_len(s) # 2 THEN Err("Invalid length of square notation")
    ELSE LET bytes == as_bytes(str_to_uppercase(s))
             fst == bytes[1]
         IN  IF fst < Ord("A") \/ fst > Ord("I") THEN Err("Invalid rank")
             ELSE IF Len(bytes) < 2 THEN Abort("index out of bounds")
             ELSE LET snd == bytes[2]
                  IN  IF snd < Ord("1") \/ snd > Ord("8") THEN Err("Invalid file")
                      ELSE OkVal(<<fst - Ord("A"), snd - Ord("1")>>)

\* Square::from(s): bytes 0 and 1 of the uppercased string are read as chars.
Square_from(s) ==
    IF str_len(s) # 2 THEN Err("Invalid length of square notation")
    ELSE LET bytes == as_bytes(str_to_uppercase(s))
             fst == bytes[1]
         IN  IF fst < Ord("A") \/ fst > Ord("H") THEN Err("Invalid rank")
             ELSE IF Len(bytes) < 2 THEN Abort("index out of bounds")
             ELSE LET snd == bytes[2]
                  IN  IF snd < Ord("1") \/ snd > Ord("8") THEN Err("Invalid file")
                      ELSE OkVal(<<fst - Ord("A"), snd - Ord("1")>>)

\* square!(s): the same reading behind assert_eq! and assert!.
square_macro(s) ==
    IF str_len(s) # 2 THEN Abort("assertion failed")
    ELSE LET bytes == as_bytes(str_to_uppercase(s))
             fst == bytes[1]
         IN  IF ~(fst >= Ord("A")) \/ ~(fst <= Ord("H")) THEN Abort("assertion failed")
             ELSE IF Len(bytes) < 2 THEN Abort("index out of bounds")
             ELSE LET snd == bytes[2]
                  IN  IF ~(snd >= Ord("1")) \/ ~(snd <= Ord("8"))
                      THEN Abort("assertion failed")
                      ELSE OkVal(<<fst - Ord("A"), snd - Ord("1")>>)

\* The notation strings passed: at most MaxNotationLen chars, among them the
\* ends of the two ranges, their neighbours, and chars of two bytes.
MaxNotationLen == 3

NotationChars ==
    {"@", "A", "D", "H", "I", "U+0060", "a", "d", "h", "i",
     "0", "1", "5", "8", "9", SHARP_S, DOTLESS_I, E_ACUTE}

NotationStrings == StringsUpTo(NotationChars, MaxNotationLen)

CallSquareFrom == Call("Square::from", Square_from(input))
CallSquareMacro == Call("square!", square_macro(input))

NextSquare == CallSquareFrom \/ CallSquareMacro

SpecSquare == InitCall(NotationStrings) /\ [][NextSquare]_vars

\* The letters of the files and the digits of the ranks, in index order.
FileLetters == <<"A", "B", "C", "D", "E", "F", "G", "H">>
FileLettersLower == <<"a", "b", "c", "d", "e", "f", "g", "h">>
RankDigits == <<"1", "2", "3", "4", "5", "6", "7", "8">>

\* s is a file letter of either case followed by a rank digit.
IsSquareNotation(s) ==
    /\ Len(s) = 2
    /\ \E i \in 1 .. 8 : s[1] = FileLetters[i] \/ s[1] = FileLettersLower[i]
    /\ \E j \in 1 .. 8 : s[2] = RankDigits[j]

\* The square a notation string names: A is file 0, 1 is rank 0.
NotatedSquare(s) ==
    <<(CHOOSE i \in 1 .. 8 : s[1] = FileLetters[i] \/ s[1] = FileLettersLower[i]) - 1,
      (CHOOSE j \in 1 .. 8 : s[2] = RankDigits[j]) - 1>>

\* C14: Square::from(s) returns Ok exactly for a file letter a-h or A-H
\* followed by a digit 1-8, with the square that string names, which is the
\* square of the same string in the other case and the one square! yields;
\* every other string gets an error, and no returned square has a component
\* of 8 or more.
C14_SquareFrom ==
    called = "Square::from" =>
        /\ IF IsSquareNotation(input)
           THEN /\ output = OkVal(NotatedSquare(input))
                /\ Square_from(str_to_uppercase(input)) = output
                /\ square_macro(input) = output
           ELSE IsError(output)
        /\ IsOk(output) => output.val[1] < 8 /\ output.val[2] < 8

\* Square::from has returned the square H8 for a lowercase "h8".
C14_Witness ==
    /\ called = "Square::from"
    /\ input = <<"h", "8">>
    /\ output = OkVal(<<7, 7>>)

\* --------------------------------------------------------------- piece.rs

\* Piece = u8: the operations on its bits.
PieceBits == 8

Shl(x, n) == (x * 2^n) % 2^PieceBits

RECURSIVE BitAnd(_, _)
BitAnd(a, b) ==
    IF a = 0 \/ b = 0 THEN 0
    ELSE (a % 2) * (b % 2) + 2 * BitAnd(a \div 2, b \div 2)

RECURSIVE BitOr(_, _)
BitOr(a, b) ==
    IF a = 0 THEN b
    ELSE IF b = 0 THEN a
    ELSE (IF a % 2 = 1 \/ b % 2 = 1 THEN 1 ELSE 0) + 2 * BitOr(a \div 2, b \div 2)

BITS_NO_PIECE == Shl(0, 0)
BITS_PAWN == Shl(1, 0)
BITS_ROOK == Shl(2, 0)
BITS_KNIGHT == Shl(3, 0)
BITS_BISHOP == Shl(4, 0)
BITS_QUEEN == Shl(5, 0)
BITS_KING == Shl(6, 0)

BITS_WHITE == Shl(0, 3)
BITS_BLACK == Shl(1, 3)

BITS_UNMOVED == Shl(0, 4)
BITS_HAS_MOVED == Shl(1, 4)

\* piece & 0b111
piece_type(piece) == BitAnd(piece, 7)

\* piece & (1 << 3)
piece_color(piece) == BitAnd(piece, Shl(1, 3))

\* is_piece(piece)
is_piece(piece) == piece_type(piece) = BITS_NO_PIECE

\* The letter of a kind in lowercase; a panic for the other kind bits.
type_letter(type) ==
    CASE type = BITS_BISHOP -> OkVal("b")
      [] type = BITS_KING -> OkVal("k")
      [] type = BITS_KNIGHT -> OkVal("n")
      [] type = BITS_PAWN -> OkVal("p")
      [] type = BITS_QUEEN -> OkVal("q")
      [] type = BITS_ROOK -> OkVal("r")
      [] OTHER -> Abort("Invalid piece bits")

\* piece_to_letter(piece_bits) of piece.rs
piece_to_letter(piece_bits) ==
    LET ch == type_letter(piece_type(piece_bits))
    IN  IF IsAbort(ch) THEN ch
        ELSE CASE piece_color(piece_bits) = BITS_WHITE ->
                    OkVal(Head(char_to_uppercase(ch.val)))
               [] piece_color(piece_bits) = BITS_BLACK -> ch
               [] OTHER -> Abort("Invalid piece bits")

\* The kind bits of a piece letter of either case; an error for another char.
letter_type(letter) ==
    LET upper == Head(char_to_uppercase(letter))
    IN  CASE upper = "B" -> OkVal(BITS_BISHOP)
          [] upper = "K" -> OkVal(BITS_KING)
          [] upper = "N" -> OkVal(BITS_KNIGHT)
          [] upper = "P" -> OkVal(BITS_PAWN)
          [] upper = "Q" -> OkVal(BITS_QUEEN)
          [] upper = "R" -> OkVal(BITS_ROOK)
          [] OTHER -> Err("Invalid piece type")

\* letter_to_piece(letter) of piece.rs: the color and the kind are joined
\* with '&'.
letter_to_piece(letter) ==
    LET type == letter_type(letter)
        color == IF is_uppercase(letter) THEN BITS_WHITE ELSE BITS_BLACK
    IN  IF IsError(type) THEN type ELSE OkVal(BitAnd(color, type.val))

\* import_piece(letter) of fen.rs: the color and the kind are joined with '|'.
import_piece(letter) ==
    LET type == letter_type(letter)
        color == IF is_uppercase(letter) THEN BITS_WHITE ELSE BITS_BLACK
    IN  IF IsError(type) THEN type ELSE OkVal(BitOr(color, type.val))

\* The values passed: every u8 as a piece, every printable ASCII char and the
\* chars outside ASCII as a letter.
PieceValues == 0 .. (2^PieceBits - 1)
LetterChars == AsciiChars \cup {SHARP_S, DOTLESS_I, E_ACUTE, CAP_E_ACUTE}
PieceInputs ==
    {[piece |-> p] : p \in PieceValues} \cup {[letter |-> c] : c \in LetterChars}

IsPieceInput == DOMAIN input = {"piece"}
IsLetterInput == DOMAIN input = {"letter"}

CallIsPiece == IsPieceInput /\ Call("is_piece", is_piece(input.piece))
CallPieceToLetter == IsPieceInput /\ Call("piece_to_letter", piece_to_letter(input.piece))
CallLetterToPiece == IsLetterInput /\ Call("letter_to_piece", letter_to_piece(input.letter))
CallImportPiece == IsLetterInput /\ Call("import_piece", import_piece(input.letter))

\* letter_to_piece applied to the letter piece_to_letter returned.
CallLetterToPieceOfLetter ==
    /\ called = "piece_to_letter"
    /\ IsOk(output)
    /\ called' = "letter_to_piece"
    /\ output' = letter_to_piece(output.val)
    /\ UNCHANGED <<input, pieces, player_turn, en_passant, result,
                   moved_from, moved_to, captured, moves>>

NextPiece ==
    \/ CallIsPiece
    \/ CallPieceToLetter
    \/ CallLetterToPiece
    \/ CallImportPiece
    \/ CallLetterToPieceOfLetter

SpecPiece == InitCall(PieceInputs) /\ [][NextPiece]_vars

\* The kind (1 pawn, 2 rook, 3 knight, 4 bishop, 5 queen, 6 king, 0 none) and
\* the color of an encoded value, read from bits 0..2 and bit 3.
KindOf(p) == p % 8
IsBlack(p) == (p \div 8) % 2 = 1
IsEncodedPiece(p) == KindOf(p) \in 1 .. 6
IsEncodedValue(p) == KindOf(p) \in 0 .. 6

\* The standard letter of a kind and color.
StandardLetter(p) ==
    IF IsBlack(p)
    THEN <<"p", "r", "n", "b", "q", "k">>[KindOf(p)]
    ELSE <<"P", "R", "N", "B", "Q", "K">>[KindOf(p)]

PieceLetters == {"P", "N", "B", "R", "Q", "K", "p", "n", "b", "r", "q", "k"}

\* C15: for each kind and color piece_to_letter gives the standard letter,
\* uppercase for white and lowercase for black, and letter_to_piece applied
\* to that letter returns an encoding with the same kind and color;
\* letter_to_piece returns an error for every char outside PNBRQKpnbrqk.
C15_LetterCodec ==
    /\ (called = "piece_to_letter" /\ IsEncodedPiece(input.piece)) =>
            output = OkVal(StandardLetter(input.piece))
    /\ (called = "letter_to_piece" /\ IsPieceInput) =>
            /\ IsOk(output)
            /\ KindOf(output.val) = KindOf(input.piece)
            /\ IsBlack(output.val) = IsBlack(input.piece)
    /\ (called = "letter_to_piece" /\ IsLetterInput /\ input.letter \notin PieceLetters) =>
            IsError(output)

\* C16: for every encoded value is_piece returns true iff the kind bits are
\* not the none kind.
C16_IsPiece ==
    (called = "is_piece" /\ IsEncodedValue(input.piece)) =>
        output = (KindOf(input.piece) # 0)

\* ----------------------------------------------------------------- fen.rs

\* str::split(sep): the fields between the separators; one empty field for
\* the empty string.
RECURSIVE Split(_, _)
Split(s, sep) ==
    IF \A i \in 1 .. Len(s) : s[i] # sep THEN <<s>>
    ELSE LET i == CHOOSE k \in 1 .. Len(s) : s[k] = sep /\ \A j \in 1 .. (k - 1) : s[j] # sep
         IN  <<SubSeq(s, 1, i - 1)>> \o Split(SubSeq(s, i + 1, Len(s)), sep)

\* '1'..='7'
IsDigit1To7(ch) == ch \in {"1", "2", "3", "4", "5", "6", "7"}

\* ch.to_digit(10), for a decimal digit.
to_digit(ch) == Ord(ch) - Ord("0")

\* usize::to_string
RECURSIVE to_string(_)
to_string(n) ==
    IF n < 10 THEN <<Chr(Ord("0") + n)>>
    ELSE to_string(n \div 10) \o <<Chr(Ord("0") + (n % 10))>>

\* Box::new([[BITS_NO_PIECE; 8]; 8])
EmptyGrid == [file \in Idx |-> [rank \in Idx |-> BITS_NO_PIECE]]

\* import_rank(rank_idx, rank, pieces), over the chars not yet read: '8'
\* breaks out of the loop, a digit is added with no check, a letter is placed
\* after the check of the file.
RECURSIVE import_rank(_, _, _, _)
import_rank(rank_idx, rank, next_piece_file, grid) ==
    IF rank = <<>> THEN OkVal(grid)
    ELSE LET ch == Head(rank)
         IN  IF ch = "8" THEN OkVal(grid)
             ELSE IF IsDigit1To7(ch)
             THEN import_rank(rank_idx, Tail(rank), next_piece_file + to_digit(ch), grid)
             ELSE IF next_piece_file >= 8 THEN Err("Rank is invalid")
             ELSE LET piece == import_piece(ch)
                  IN  IF IsError(piece) THEN piece
                      ELSE import_rank(rank_idx, Tail(rank), next_piece_file + 1,
                               [grid EXCEPT ![next_piece_file][rank_idx] = piece.val])

\* The loop of import_piece_placement from the k-th rank on: zip pairs the
\* ranks with the indices 7 down to 0 and stops at the shorter of the two.
RECURSIVE import_ranks(_, _, _)
import_ranks(ranks, k, grid) ==
    IF k > Len(ranks) \/ k > BoardSize THEN OkVal(grid)
    ELSE LET res == import_rank(BoardSize - k, ranks[k], 0, grid)
         IN  IF IsOk(res) THEN import_ranks(ranks, k + 1, res.val) ELSE res

\* import_piece_placement(placement)
import_piece_placement(placement) == import_ranks(Split(placement, "/"), 1, EmptyGrid)

\* import_side_to_move(side_to_move)
import_side_to_move(side_to_move) ==
    IF str_len(side_to_move) # 1 THEN Err("Invalid side-to-move field")
    ELSE CASE side_to_move[1] = "w" -> OkVal(BITS_WHITE)
           [] side_to_move[1] = "b" -> OkVal(BITS_BLACK)
           [] OTHER -> Err("Invalid side-to-move field")

\* The en-passant field: "-" or a square in notation.
import_en_passant(en_passant_sq) ==
    IF en_passant_sq # <<"-">> THEN Square_from(en_passant_sq) ELSE OkVal(NoSquare)

\* import(fen_pos) of fen.rs: each field is taken from the split in turn, the
\* error of a field that is not there or does not parse returned at once.
fen_import(fen_pos) ==
    LET split == Split(fen_pos, " ")
    IN  IF Len(split) < 1 THEN Err("Piece placement field is missing")
        ELSE LET piece_placement == import_piece_placement(split[1])
        IN  IF ~IsOk(piece_placement) THEN piece_placement
        ELSE IF Len(split) < 2 THEN Err("Side-to-move field is missing")
        ELSE LET side_to_move == import_side_to_move(split[2])
        IN  IF ~IsOk(side_to_move) THEN side_to_move
        ELSE IF Len(split) < 3 THEN Err("Castling ability field is missing")
        ELSE IF Len(split) < 4 THEN Err("En passant target square field is missing")
        ELSE LET en_passant_sq == import_en_passant(split[4])
        IN  IF ~IsOk(en_passant_sq) THEN en_passant_sq
        ELSE IF Len(split) < 5 THEN Err("Halfmove clock field is missing")
        ELSE IF Len(split) < 6 THEN Err("Halfmove counter field is missing")
        ELSE OkVal([pieces |-> piece_placement.val,
                    side_to_move |-> side_to_move.val,
                    en_passant |-> en_passant_sq.val])

\* Board::get_piece and Board::side_to_move of the board fen::import builds.
Board_get_piece(board, sq) == board.pieces[File(sq)][Rank(sq)]
Board_side_to_move(board) == board.side_to_move

\* Square::to_str: the file letter and the rank digit.
Square_to_str(sq) == <<FileLettersLower[File(sq) + 1], RankDigits[Rank(sq) + 1]>>

\* piece_to_letter(piece_bits) of fen.rs
fen_piece_to_letter(piece_bits) ==
    LET ch == type_letter(piece_type(piece_bits))
    IN  IF IsAbort(ch) THEN ch
        ELSE CASE piece_color(piece_bits) = BITS_WHITE ->
                    OkVal(Head(char_to_uppercase(ch.val)))
               [] piece_color(piece_bits) = BITS_BLACK -> ch
               [] OTHER -> Abort("Invalid piece bits")

\* The chars export pushes for one rank from 'file' on: the letter is that
\* of the kind bits alone.
RECURSIVE export_rank(_, _, _, _)
export_rank(board, rank, file, steps_to_next_piece) ==
    IF file >= BoardSize THEN OkVal(<<>>)
    ELSE LET p_type == piece_type(Board_get_piece(board, <<file, rank>>))
         IN  IF p_type = BITS_NO_PIECE
             THEN LET rest == export_rank(board, rank, file + 1, steps_to_next_piece + 1)
                  IN  IF file = 7 /\ IsOk(rest)
                      THEN OkVal(to_string(steps_to_next_piece + 1) \o rest.val)
                      ELSE rest
             ELSE LET letter == fen_piece_to_letter(p_type)
                      rest == export_rank(board, rank, file + 1, 0)
                      count == IF steps_to_next_piece > 0
                               THEN to_string(steps_to_next_piece) ELSE <<>>
                  IN  IF IsAbort(letter) THEN letter
                      ELSE IF IsAbort(rest) THEN rest
                      ELSE OkVal(count \o <<letter.val>> \o rest.val)

\* The placement export pushes, from 'rank' down to rank 0.
RECURSIVE export_ranks(_, _)
export_ranks(board, rank) ==
    LET this == export_rank(board, rank, 0, 0)
    IN  IF IsAbort(this) THEN this
        ELSE IF rank > 0
        THEN LET below == export_ranks(board, rank - 1)
             IN  IF IsAbort(below) THEN below
                 ELSE OkVal(this.val \o <<"/">> \o below.val)
        ELSE this

\* export(board) of fen.rs
fen_export(board) ==
    LET placement == export_ranks(board, BoardSize - 1)
        side == CASE Board_side_to_move(board) = BITS_WHITE -> OkVal(<<" ", "w">>)
                  [] Board_side_to_move(board) = BITS_BLACK -> OkVal(<<" ", "b">>)
                  [] OTHER -> Abort("Invalid color")
        en_passant_sq == IF board.en_passant = NoSquare THEN <<"-">>
                         ELSE Square_to_str(board.en_passant)
    IN  IF IsAbort(placement) THEN placement
        ELSE IF IsAbort(side) THEN side
        ELSE OkVal(placement.val \o side.val \o <<" ", "K", "Q", "k", "q">>
                   \o <<" ">> \o en_passant_sq \o <<" ", "0">> \o <<" ", "0">>)

\* ---------------------------------------------------------- fen_parser.rs

\* Box::new([[None; 8]; 8])
EmptyOptionGrid == [file \in Idx |-> [rank \in Idx |-> None]]

\* parse_piece(ch)
parse_piece(ch) ==
    LET color == IF is_uppercase(ch) THEN WHITE ELSE BLACK
    IN  CASE ch \in {"p", "P"} -> OkVal(PAWN(color, FALSE))
          [] ch \in {"n", "N"} -> OkVal(KNIGHT(color))
          [] ch \in {"b", "B"} -> OkVal(BISHOP(color))
          [] ch \in {"r", "R"} -> OkVal(ROOK(color, FALSE))
          [] ch \in {"q", "Q"} -> OkVal(QUEEN(color))
          [] ch \in {"k", "K"} -> OkVal(KING(color, FALSE))
          [] OTHER -> Err("Could not parse piece specifier")

\* parse_rank(rank_idx, rank, pieces), over the chars not yet read: the file
\* is checked after a digit only, and a letter is placed at pieces[file]
\* whatever the file, which panics past the last index.
RECURSIVE parse_rank(_, _, _, _)
parse_rank(rank_idx, rank, next_piece_file, grid) ==
    IF rank = <<>> THEN OkVal(grid)
    ELSE LET ch == Head(rank)
         IN  IF ch = "8" THEN OkVal(grid)
             ELSE IF IsDigit1To7(ch)
             THEN IF next_piece_file + to_digit(ch) >= 8 THEN Err("Rank is invalid")
                  ELSE parse_rank(rank_idx, Tail(rank), next_piece_file + to_digit(ch), grid)
             ELSE LET piece == parse_piece(ch)
                  IN  IF IsError(piece) THEN piece
                      ELSE IF next_piece_file >= BoardSize THEN Abort("index out of bounds")
                      ELSE parse_rank(rank_idx, Tail(rank), next_piece_file + 1,
                               [grid EXCEPT ![next_piece_file][rank_idx] = piece.val])

\* The loop of parse_piece_placement from the k-th rank on.
RECURSIVE parse_ranks(_, _, _)
parse_ranks(ranks, k, grid) ==
    IF k > Len(ranks) \/ k > BoardSize THEN OkVal(grid)
    ELSE LET res == parse_rank(BoardSize - k, ranks[k], 0, grid)
         IN  IF IsOk(res) THEN parse_ranks(ranks, k + 1, res.val) ELSE res

\* parse_piece_placement(placement)
parse_piece_placement(placement) == parse_ranks(Split(placement, "/"), 1, EmptyOptionGrid)

\* parse_side_to_move(side_to_move)
parse_side_to_move(side_to_move) ==
    IF str_len(side_to_move) # 1 THEN Err("Invalid side-to-move field")
    ELSE CASE side_to_move[1] = "w" -> OkVal(WHITE)
           [] side_to_move[1] = "b" -> OkVal(BLACK)
           [] OTHER -> Err("Invalid side-to-move field")

\* import(fen_pos) of fen_parser.rs
fen_parser_import(fen_pos) ==
    LET split == Split(fen_pos, " ")
    IN  IF Len(split) < 1 THEN Err("Piece placement field is missing")
        ELSE LET piece_placement == parse_piece_placement(split[1])
        IN  IF ~IsOk(piece_placement) THEN piece_placement
        ELSE IF Len(split) < 2 THEN Err("Side-to-move field is missing")
        ELSE LET side_to_move == parse_side_to_move(split[2])
        IN  IF ~IsOk(side_to_move) THEN side_to_move
        ELSE IF Len(split) < 3 THEN Err("Castling ability field is missing")
        ELSE IF Len(split) < 4 THEN Err("En passant target square field is missing")
        ELSE IF Len(split) < 5 THEN Err("Halfmove clock field is missing")
        ELSE IF Len(split) < 6 THEN Err("Halfmove clock field is missing")
        ELSE OkVal([pieces |-> piece_placement.val, side_to_move |-> side_to_move.val])

\* ------------------------------------------------------------ FEN strings

\* The strings joined with a separator between them.
RECURSIVE Join(_, _)
Join(strs, sep) ==
    IF strs = <<>> THEN <<>>
    ELSE IF Len(strs) = 1 THEN strs[1]
    ELSE strs[1] \o <<sep>> \o Join(Tail(strs), sep)

\* "rnbqkbnr/pppppppp/8/8/8/8/PPPPPPPP/RNBQKBNR w KQkq - 0 1": tests::export_is_the_inverse_of_import, first string.
FenStart ==
    <<"r", "n", "b", "q", "k", "b", "n", "r", "/", "p", "p", "p", "p", "p", "p",
      "p", "p", "/", "8", "/", "8", "/", "8", "/", "8", "/", "P", "P", "P", "P",
      "P", "P", "P", "P", "/", "R", "N", "B", "Q", "K", "B", "N", "R", " ", "w",
      " ", "K", "Q", "k", "q", " ", "-", " ", "0", " ", "1">>

\* "R4b2/1K4P1/1P5P/1p6/5B2/3pp1r1/pNQ2P2/4k3 w - - 0 1": the second string of that test.
FenMiddle ==
    <<"R", "4", "b", "2", "/", "1", "K", "4", "P", "1", "/", "1", "P", "5", "P",
      "/", "1", "p", "6", "/", "5", "B", "2", "/", "3", "p", "p", "1", "r", "1",
      "/", "p", "N", "Q", "2", "P", "2", "/", "4", "k", "3", " ", "w", " ", "-",
      " ", "-", " ", "0", " ", "1">>

\* "8/k7/8/8/8/8/8/2K5 b - - 0 1": the fourth string of that test.
FenKings ==
    <<"8", "/", "k", "7", "/", "8", "/", "8", "/", "8", "/", "8", "/", "8", "/",
      "2", "K", "5", " ", "b", " ", "-", " ", "-", " ", "0", " ", "1">>

\* "rnbqkbnr/pppppppp/8/8/4P3/8/PPPP1PPP/RNBQKBNR b KQkq e3 0 1": the start position after e2-e4, with its en-passant target.
FenEnPassant ==
    <<"r", "n", "b", "q", "k", "b", "n", "r", "/", "p", "p", "p", "p", "p", "p",
      "p", "p", "/", "8", "/", "8", "/", "4", "P", "3", "/", "8", "/", "P", "P",
      "P", "P", "1", "P", "P", "P", "/", "R", "N", "B", "Q", "K", "B", "N", "R",
      " ", "b", " ", "K", "Q", "k", "q", " ", "e", "3", " ", "0", " ", "1">>

\* The FEN strings of the repository's test and of a position after a
\* two-step advance.
TestFens == {FenStart, FenMiddle, FenKings, FenEnPassant}

\* The first n of the six fields of a FEN string.
FirstFields(fen, n) == Join(SubSeq(Split(fen, " "), 1, n), " ")

\* A test string cut after each of its fields, down to the empty string.
TruncatedFens == {FirstFields(fen, n) : fen \in TestFens, n \in 0 .. 5}

\* The ranks passed: every string of at most MaxRankLen chars over a white
\* pawn, a black king and the digits 4, 7 and 8.
MaxRankLen == 5
RankChars == {"P", "k", "4", "7", "8"}
RankStrings == StringsUpTo(RankChars, MaxRankLen)

\* The placement with 'rank' as its k-th rank and the other seven empty.
PlacementWith(rank, k) ==
    Join([i \in 1 .. BoardSize |-> IF i = k THEN rank ELSE <<"8">>], "/")

\* A six-field string around each such placement.
RankFens ==
    {PlacementWith(rank, k) \o <<" ", "w", " ", "-", " ", "-", " ", "0", " ", "1">> :
        rank \in RankStrings, k \in 1 .. BoardSize}

FenStrings == TestFens \cup TruncatedFens \cup RankFens

CallFenImport == Call("fen::import", fen_import(input))
CallFenParserImport == Call("fen_parser::import", fen_parser_import(input))

\* fen::export applied to the board fen::import returned.
CallFenExport ==
    /\ called = "fen::import"
    /\ IsOk(output)
    /\ called' = "fen::export"
    /\ output' = fen_export(output.val)
    /\ UNCHANGED <<input, pieces, player_turn, en_passant, result,
                   moved_from, moved_to, captured, moves>>

NextFen == CallFenImport \/ CallFenParserImport \/ CallFenExport

SpecFen == InitCall(FenStrings) /\ [][NextFen]_vars

\* The space-separated fields of a FEN string and the ranks of its placement.
Fields(fen) == Split(fen, " ")
Ranks(fen) == Split(Fields(fen)[1], "/")

\* The files a rank consumes: one for a piece letter, d for a digit d.
RECURSIVE RankFiles(_)
RankFiles(rank) ==
    IF rank = <<>> THEN 0
    ELSE (IF Head(rank) \in {"1", "2", "3", "4", "5", "6", "7", "8"}
          THEN to_digit(Head(rank)) ELSE 1) + RankFiles(Tail(rank))

IsRankDigit(ch) == ch \in {"1", "2", "3", "4", "5", "6", "7", "8"}

\* A rank of piece letters and digits that fills exactly 8 files, each run
\* of empty files written as one digit.
IsValidRank(rank) ==
    /\ \A i \in 1 .. Len(rank) : rank[i] \in PieceLetters \/ IsRankDigit(rank[i])
    /\ \A i \in 1 .. (Len(rank) - 1) : ~(IsRankDigit(rank[i]) /\ IsRankDigit(rank[i + 1]))
    /\ RankFiles(rank) = 8

\* A six-field string with a placement of 8 such ranks and a side to move.
IsValidFen(fen) ==
    /\ Len(Fields(fen)) = 6
    /\ Len(Ranks(fen)) = 8
    /\ \A k \in 1 .. 8 : IsValidRank(Ranks(fen)[k])
    /\ Fields(fen)[2] \in {<<"w">>, <<"b">>}

\* C11: for every six-field FEN string whose placement has 8 ranks of
\* exactly 8 files, import succeeds and export of the imported board has the
\* same placement field, letter for letter and digit for digit, and the same
\* side-to-move field.
C11_FenRoundTrip ==
    /\ (called = "fen::import" /\ IsValidFen(input)) => IsOk(output)
    /\ (called = "fen::export" /\ IsValidFen(input)) =>
            /\ IsOk(output)
            /\ Fields(output.val)[1] = Fields(input)[1]
            /\ Fields(output.val)[2] = Fields(input)[2]

\* C12: import returns an error, and no board, for every placement in which
\* some rank consumes more than 8 files.
C12_RankOverflow ==
    (/\ called \in {"fen::import", "fen_parser::import"}
     /\ \E k \in 1 .. Len(Ranks(input)) : RankFiles(Ranks(input)[k]) > 8) =>
        IsError(output)

\* The error that names the i-th field as missing.
MissingFieldErrors(i) ==
    CASE i = 1 -> {"Piece placement field is missing"}
      [] i = 2 -> {"Side-to-move field is missing"}
      [] i = 3 -> {"Castling ability field is missing"}
      [] i = 4 -> {"En passant target square field is missing"}
      [] i = 5 -> {"Halfmove clock field is missing"}
      [] i = 6 -> {"Fullmove number field is missing", "Fullmove counter field is missing"}

\* C13: import of a string with fewer than six fields returns an error, and
\* the error names the first field that is absent.
C13_MissingFields ==
    (called = "fen::import" /\ Len(Fields(input)) < 6) =>
        /\ IsError(output)
        /\ output.err \in MissingFieldErrors(Len(Fields(input)) + 1)

\* ------------------------------------------------ board.rs: further claims

\* C17: on every board reached from new_board, for every pair of squares of
\* the board, move_piece returns Ok or an error value; it never aborts.
C17_MovePieceCompletes ==
    /\ result # Panic
    /\ \A from \in Squares : \A to \in Squares : Panic \notin move_piece_results(from, to)

\* Games in which only the knights standing on files A to D are moved, up to
\* MaxHunt moves.
MaxHunt == 7

KnightOrigins == {sq \in PlaySquares : get_piece(sq).kind = "KNIGHT"}

NextHunt == \E from \in KnightOrigins : MovePiece(from, ToSquares, MaxHunt)

SpecHunt == Init /\ [][NextHunt]_vars

\* The number of kings of a color on the board.
KingCount(color) ==
    Cardinality({sq \in Squares :
                    get_piece(sq).kind = "KING" /\ get_piece(sq).color = color})

\* C18: every board reached from new_board through successful moves holds
\* exactly one white king and exactly one black king.
C18_KingPreservation == KingCount(WHITE) = 1 /\ KingCount(BLACK) = 1

\* C19: on every board reached from new_board through successful moves, a
\* pawn's moved-flag is false iff the pawn stands on the starting rank of its
\* color.
C19_PawnMovedFlag ==
    \A sq \in Squares :
        get_piece(sq).kind = "PAWN" =>
            (get_piece(sq).has_moved = FALSE <=> Rank(sq) = StartRank(get_piece(sq).color))

\* A pawn that left its starting rank earlier has just captured on the next
\* file, while other pawns of its color still stand on the starting rank.
C19_Witness ==
    /\ result = Ok
    /\ get_piece(moved_to) = PAWN(WHITE, TRUE)
    /\ File(moved_to) # File(moved_from)
    /\ Rank(moved_from) # StartRank(WHITE)
    /\ \E sq \in Squares : get_piece(sq) = PAWN(WHITE, FALSE)

====
